---------------------------- MODULE Spec2Model ----------------------------
(***************************************************************************)
(* A model of the serial protocol engine of tauri_esp32_comunication:      *)
(* src-tauri/src/serial.rs (SerialConnection, SerialState) and the tauri   *)
(* commands of src-tauri/src/commands.rs that drive it.                    *)
(*                                                                         *)
(* Text and byte strings are kept run-length encoded: a string is a        *)
(* sequence of runs <<c, n>>, n >= 1 copies of the byte or code point c,   *)
(* no two neighbouring runs having the same c.  The encoding only makes    *)
(* the 16 KiB response window and the 4096-byte read buffer affordable;    *)
(* every operator below works on byte and character counts exactly as the  *)
(* Rust string and slice methods it is named after.                        *)
(***************************************************************************)
EXTENDS Integers, Sequences, FiniteSets, TLC

(***************************************************************************)
(* Program constants.                                                      *)
(***************************************************************************)
TIMEOUT_MS == 1000
RESPONSE_CAP == 16 * 1024
\* chunks of the device's whole receive buffer
chunk_size_256 == 4 * 64
chunk_size == 64
\* a deadline of a second and a half
max_wait_short == 15 * 100
max_wait == 15000
READ_BUF == 4096
CMD_BUF == 1024
POLL_SLEEP_MS == 100
DRAIN_MS == 250
DRAIN_SLEEP_MS == 20
PREVIEW_CHARS == 500
ERR_PREVIEW_CHARS == 300

(***************************************************************************)
(* Bytes and code points that occur in the model.                          *)
(***************************************************************************)
LF == 10
CR == 13
SP == 32
REPLACEMENT == 65533
\* Unicode White_Space, as char::is_whitespace (str::trim) sees it, among
\* the code points below 65536
WhiteSpace == {9, 10, 11, 12, 13, 32, 133, 160, 5760, 8232, 8233, 8239, 8287, 12288}
                 \cup (8192 .. 8202)

(***************************************************************************)
(* Run-length encoded strings.                                             *)
(***************************************************************************)
Min(a, b) == IF a <= b THEN a ELSE b

\* s followed by t
Cat(s, t) ==
    IF s = << >> THEN t
    ELSE IF t = << >> THEN s
    ELSE IF s[Len(s)][1] = t[1][1]
         THEN SubSeq(s, 1, Len(s) - 1)
                \o << <<t[1][1], s[Len(s)][2] + t[1][2]>> >>
                \o SubSeq(t, 2, Len(t))
         ELSE s \o t

\* the string of a flat sequence of bytes or code points (a literal)
RECURSIVE Lit(_)
Lit(q) == IF q = << >> THEN << >> ELSE Cat(<< <<Head(q), 1>> >>, Lit(Tail(q)))

\* n copies of c
Rep(c, n) == IF n = 0 THEN << >> ELSE << <<c, n>> >>

\* number of elements (bytes of a byte string, chars of a text)
RECURSIVE Count(_)
Count(s) == IF s = << >> THEN 0 ELSE s[1][2] + Count(Tail(s))

\* the first k elements / all but the first k elements
RECURSIVE Take(_, _)
Take(s, k) ==
    IF k = 0 \/ s = << >> THEN << >>
    ELSE IF s[1][2] >= k THEN << <<s[1][1], k>> >>
    ELSE << s[1] >> \o Take(Tail(s), k - s[1][2])

RECURSIVE Drop(_, _)
Drop(s, k) ==
    IF k = 0 \/ s = << >> THEN s
    ELSE IF s[1][2] > k THEN << <<s[1][1], s[1][2] - k>> >> \o Tail(s)
    ELSE Drop(Tail(s), k - s[1][2])

(***************************************************************************)
(* UTF-8.                                                                  *)
(***************************************************************************)
\* char::len_utf8
Utf8Len(c) == IF c < 128 THEN 1 ELSE IF c < 2048 THEN 2 ELSE IF c < 65536 THEN 3 ELSE 4

\* the UTF-8 bytes of one code point below 65536
Utf8Bytes(c) ==
    IF c < 128 THEN << c >>
    ELSE IF c < 2048 THEN << 192 + (c \div 64), 128 + (c % 64) >>
    ELSE << 224 + (c \div 4096), 128 + ((c \div 64) % 64), 128 + (c % 64) >>

\* String::len: the length of a text in UTF-8 bytes
RECURSIVE StrLen(_)
StrLen(s) == IF s = << >> THEN 0 ELSE s[1][2] * Utf8Len(s[1][1]) + StrLen(Tail(s))

RECURSIVE RepeatSeq(_, _)
RepeatSeq(q, n) == IF n = 0 THEN << >> ELSE Cat(Lit(q), RepeatSeq(q, n - 1))

\* str::as_bytes: the UTF-8 bytes of a text
RECURSIVE as_bytes(_)
as_bytes(s) ==
    IF s = << >> THEN << >>
    ELSE Cat(IF s[1][1] < 128 THEN << s[1] >> ELSE RepeatSeq(Utf8Bytes(s[1][1]), s[1][2]),
             as_bytes(Tail(s)))

\* String::from_utf8_lossy on bytes that are ASCII or can start no UTF-8
\* sequence (0xF8..0xFF): every such byte becomes one U+FFFD
RECURSIVE from_utf8_lossy(_)
from_utf8_lossy(b) ==
    IF b = << >> THEN << >>
    ELSE Cat(<< <<IF b[1][1] < 128 THEN b[1][1] ELSE REPLACEMENT, b[1][2]>> >>,
             from_utf8_lossy(Tail(b)))

\* str::is_char_boundary(at), for 0 <= at <= StrLen(s)
RECURSIVE is_char_boundary(_, _)
is_char_boundary(s, at) ==
    IF at = 0 THEN TRUE
    ELSE IF s = << >> THEN FALSE
    ELSE LET w == Utf8Len(s[1][1]) IN
         IF at >= s[1][2] * w THEN is_char_boundary(Tail(s), at - s[1][2] * w)
         ELSE at % w = 0

\* String::split_off(at), the returned tail, for at on a char boundary
RECURSIVE split_off(_, _)
split_off(s, at) ==
    IF at = 0 \/ s = << >> THEN s
    ELSE LET w == Utf8Len(s[1][1]) IN
         IF at >= s[1][2] * w THEN split_off(Tail(s), at - s[1][2] * w)
         ELSE << <<s[1][1], s[1][2] - (at \div w)>> >> \o Tail(s)

(***************************************************************************)
(* str::lines and str::trim.                                               *)
(***************************************************************************)
\* one trailing CR of a line that a line feed ended is dropped
StripCR(l) ==
    IF l # << >> /\ l[Len(l)][1] = CR
    THEN IF l[Len(l)][2] = 1 THEN SubSeq(l, 1, Len(l) - 1)
         ELSE SubSeq(l, 1, Len(l) - 1) \o << <<CR, l[Len(l)][2] - 1>> >>
    ELSE l

\* the lines of the runs s, cur being the line collected so far
RECURSIVE LinesFrom(_, _)
LinesFrom(s, cur) ==
    IF s = << >> THEN (IF cur = << >> THEN << >> ELSE << cur >>)
    ELSE IF s[1][1] = LF
         THEN << StripCR(cur) >> \o [i \in 1 .. (s[1][2] - 1) |-> << >>]
                \o LinesFrom(Tail(s), << >>)
         ELSE LinesFrom(Tail(s), cur \o << s[1] >>)

lines(s) == LinesFrom(s, << >>)

RECURSIVE trim_start(_)
trim_start(s) ==
    IF s # << >> /\ s[1][1] \in WhiteSpace THEN trim_start(Tail(s)) ELSE s

RECURSIVE trim_end(_)
trim_end(s) ==
    IF s # << >> /\ s[Len(s)][1] \in WhiteSpace
    THEN trim_end(SubSeq(s, 1, Len(s) - 1)) ELSE s

trim(s) == trim_end(trim_start(s))

starts_with(s, p) == Take(s, Count(p)) = p

(***************************************************************************)
(* Values.                                                                 *)
(***************************************************************************)
None == [some |-> FALSE]
Some(x) == [some |-> TRUE, val |-> x]

\* Result<_, SerialError>, and the String a command maps the error to
Ok(v) == [kind |-> "Ok", val |-> v]
Err(e) == [kind |-> "Err", err |-> e]
\* the call never returned: it panicked
Panicked == [kind |-> "Panic"]
NoResult == [kind |-> "None"]

\* an error message: a fixed text followed by a variable one
Msg(fixed, text) == << fixed, text >>

ACK == Lit(<<65, 67, 75>>)
NAK_PREFIX == Lit(<<78, 65, 75, 58>>)
CFG_OPEN == Lit(<<60, 67, 70, 71, 62, LF>>)
CFG_CLOSE == Lit(<<LF, 60, 69, 78, 68, 62, LF>>)

(***************************************************************************)
(* The environment: callers, ports, payloads, devices.                     *)
(***************************************************************************)
Callers == {"c1", "c2"}
Ports == {"COM3", "COM4"}
\* r s + - w d, the bytes of the simple commands
CommandBytes == {114, 115, 43, 45, 119, 100}
STATUS_QUERY == 63

\* the most commands invoked in a run with two callers, and with one
MaxCalls == 3
MaxUploadCalls == 2

\* a burst of device output: data that shows up after `wait` read timeouts
Burst(wait, data) == [wait |-> wait, data |-> data]

(***************************************************************************)
(* The pure parts of SerialConnection::send_config.                        *)
(***************************************************************************)
\* format!("<CFG>\n{}\n<END>\n", config)
full_message(config) == Cat(Cat(CFG_OPEN, config), CFG_CLOSE)

\* chars().take(k).collect()
take_chars(s, k) == Take(s, k)

\* the ack flag of scan_for_ack_nak: some line trims to ACK
ScanAck(s) == \E i \in 1 .. Len(lines(s)) : trim(lines(s)[i]) = ACK

\* the nak value of scan_for_ack_nak: the last line that trims to NAK:...
ScanNak(s) ==
    LET ls == lines(s)
        hits == {i \in 1 .. Len(ls) : starts_with(trim(ls[i]), NAK_PREFIX)}
    IN  IF hits = {} THEN None
        ELSE Some(trim(ls[CHOOSE i \in hits : \A j \in hits : j <= i]))

scan_for_ack_nak(s) == [ack |-> ScanAck(s), nak |-> ScanNak(s)]

\* whether capping the response goes through: split_off panics off a boundary
CapPanics(response) ==
    /\ StrLen(response) > RESPONSE_CAP
    /\ ~ is_char_boundary(response, StrLen(response) - RESPONSE_CAP)

\* Cap, keeping the oldest bytes instead of the newest
Cap_KeepOldest(response) ==
    IF StrLen(response) > RESPONSE_CAP THEN Take(response, RESPONSE_CAP) ELSE response

\* "Cap response to avoid unbounded growth"
Cap(response) ==
    IF StrLen(response) > RESPONSE_CAP
    THEN split_off(response, StrLen(response) - RESPONSE_CAP)
    ELSE response

NO_RESPONSE == "No response from ESP32 - config may not have been applied (timeout)"
NO_ACK == "No ACK received. Response preview: "

UploadResult(success, f, error_message) ==
    [success |-> success,
     bytes_sent |-> f.bytes_to_send,
     chunks_sent |-> f.chunks_sent,
     raw_response |-> f.response,
     config_preview |-> f.config_preview,
     error_message |-> error_message]

\* Classify, looking for the NAK before the empty response
Classify_NakFirst(f) ==
    IF f.nak_line.some
    THEN UploadResult(FALSE, f, Some(Msg("", f.nak_line.val)))
    ELSE IF trim(f.response) = << >>
    THEN UploadResult(FALSE, f, Some(Msg(NO_RESPONSE, << >>)))
    ELSE IF ~ f.saw_ack
    THEN UploadResult(FALSE, f,
                      Some(Msg(NO_ACK, take_chars(f.response, ERR_PREVIEW_CHARS))))
    ELSE UploadResult(TRUE, f, None)

\* the tail of send_config: the outcome of the locals f
Classify(f) ==
    IF trim(f.response) = << >>
    THEN UploadResult(FALSE, f, Some(Msg(NO_RESPONSE, << >>)))
    ELSE IF f.nak_line.some
    THEN UploadResult(FALSE, f, Some(Msg("", f.nak_line.val)))
    ELSE IF ~ f.saw_ack
    THEN UploadResult(FALSE, f,
                      Some(Msg(NO_ACK, take_chars(f.response, ERR_PREVIEW_CHARS))))
    ELSE UploadResult(TRUE, f, None)

(***************************************************************************)
(* State.                                                                  *)
(***************************************************************************)
VARIABLES
    port,       \* SerialConnection.port: None, or Some(the port that is open)
    port_name,  \* SerialConnection.port_name
    mutex,      \* the Mutex of SerialState: who holds it, whether it is poisoned
    pc,         \* where each caller's command stands
    op,         \* the command each caller invoked, with its arguments
    frame,      \* the locals of the method each caller is in
    result,     \* what a caller's command returned
    calls,      \* how many more commands are invoked
    wire,       \* what was written to the device and it has not consumed yet
    rx,         \* what the device sends: bursts not read yet
    env         \* the device on the line and the inputs the callers use

vars == << port, port_name, mutex, pc, op, frame, result, calls, wire, rx, env >>

NoOp == [cmd |-> "none"]

\* the locals of send_command and send_config, and what the model records of
\* the call: sent (the chunks written), hist (all text appended to
\* response), truncated (a cap cut the response), shorts (reads that
\* returned less than was there), last (how the latest read ended: "data",
\* "zero" for Ok(0), "timeout", "error")
NoFrame ==
    [to_send |-> << >>, bytes_to_send |-> 0, chunks_sent |-> 0,
     config_preview |-> << >>, response |-> << >>, saw_ack |-> FALSE,
     nak_line |-> None, elapsed |-> 0, drain_elapsed |-> 0,
     sent |-> << >>, hist |-> << >>, truncated |-> FALSE, shorts |-> 0,
     last |-> "none"]

\* the most reads of one call that return less than the device has delivered,
\* and the most bytes such a read returns
MaxShortReads == 2
MaxShortLen == 3

(***************************************************************************)
(* The serial port.                                                        *)
(***************************************************************************)
\* the bytes a read can take now: those of the first burst, once it is there
Available == IF rx # << >> /\ rx[1].wait = 0 THEN Count(rx[1].data) ELSE 0

\* the lengths a read into a buffer of buf bytes can return
ReadLens(f, buf) ==
    { Min(Available, buf) }
      \cup { n \in 1 .. MaxShortLen : n < Available /\ f.shorts < MaxShortReads }

\* rx after a read took n bytes
RxAfterRead(n) ==
    IF n = Count(rx[1].data) THEN Tail(rx)
    ELSE << [rx[1] EXCEPT !.data = Drop(rx[1].data, n)] >> \o Tail(rx)

\* rx after a read took n bytes of a device that never stops sending: a burst
\* read to its end is followed by the same burst again, behind the others
RxAfterReadChatty(n) ==
    IF n = Count(rx[1].data) THEN Tail(rx) \o << rx[1] >> ELSE RxAfterRead(n)

\* of a reply that does not end, the characters the model follows
MaxReply == 4
Followed(text) == IF env.chatty THEN take_chars(text, MaxReply) ELSE text

\* rx after a read timed out: the next burst is one timeout nearer
RxAfterTimeout ==
    IF rx = << >> THEN rx
    ELSE << [rx[1] EXCEPT !.wait = rx[1].wait - 1] >> \o Tail(rx)

\* SerialPort::clear(ClearBuffer::All): what has arrived is discarded
RECURSIVE Cleared(_)
Cleared(q) == IF q # << >> /\ q[1].wait = 0 THEN Cleared(Tail(q)) ELSE q

\* the device's answer to a command byte, and to a framed configuration
CommandReply(byte) == IF byte = STATUS_QUERY THEN env.status ELSE env.reply
ConfigReply == env.upload

(***************************************************************************)
(* The lock: state.0.lock(), and the guard dropped when a method returns.  *)
(***************************************************************************)
Unlocked == [mutex EXCEPT !.owner = "free"]
Poisoned == [owner |-> "free", poisoned |-> TRUE]

\* the callers inside a method of the connection: from the lock to the return
InMethod == {"body", "command", "cmd_read", "write", "poll", "drain", "classify"}

\* a value returned goes to its caller before anything else happens
Returning == \E c \in Callers : pc[c] = "ret"

\* the writes since the connection was last at rest, each with its writer
WireAfter(c, w) ==
    IF \E d \in Callers \ {c} : pc[d] \in InMethod THEN w ELSE << >>

\* caller c's method returns r: the guard is dropped
Finish(c, r) ==
    /\ pc' = [pc EXCEPT ![c] = "ret"]
    /\ result' = [result EXCEPT ![c] = r]
    /\ mutex' = Unlocked

\* caller c's method panics holding the guard: the mutex is poisoned
Panic(c) ==
    /\ pc' = [pc EXCEPT ![c] = "ret"]
    /\ result' = [result EXCEPT ![c] = Panicked]
    /\ mutex' = Poisoned

(***************************************************************************)
(* commands.rs: a command is invoked, and takes the lock.                  *)
(***************************************************************************)
Files == {"saved.json", "missing.json"}

AllCommands ==
    {[cmd |-> "connect", port |-> p] : p \in Ports}
      \cup {[cmd |-> "disconnect"], [cmd |-> "get_status"], [cmd |-> "is_connected"]}
      \cup {[cmd |-> "send_command", byte |-> b] : b \in env.bytes}
      \cup {[cmd |-> "upload_config", config |-> p] : p \in env.payloads}
      \cup {[cmd |-> "upload_saved_signal", filename |-> f] : f \in Files}

\* the commands the callers of this run invoke
Commands == {o \in AllCommands : o.cmd \in env.menu}

Uploads == {"upload_config", "upload_saved_signal"}

\* the thread a command's body runs on: upload_config hands its body, lock
\* and all, to spawn_blocking; every other command is a plain fn, run by the
\* thread that dispatches commands
RunsOn(cmd) == IF cmd = "upload_config" THEN "worker" ELSE "dispatch"

\* where a caller is while send_config runs
InSendConfig == {"write", "poll", "drain", "classify"}

Invoke(c) ==
    /\ ~ Returning
    /\ pc[c] = "idle"
    /\ c \in env.callers
    /\ calls > 0
    /\ \E o \in Commands :
         /\ op' = [op EXCEPT ![c] = o]
         /\ pc' = [pc EXCEPT ![c] = IF o.cmd = "upload_saved_signal" THEN "load" ELSE "lock"]
    /\ calls' = calls - 1
    /\ UNCHANGED << port, port_name, mutex, frame, result, wire, rx, env >>

\* upload_saved_signal: signals::load_signal and format_for_esp32, before the lock
LoadSignal(c) ==
    /\ ~ Returning
    /\ pc[c] = "load"
    /\ IF op[c].filename = "missing.json"
       THEN /\ pc' = [pc EXCEPT ![c] = "ret"]
            /\ result' = [result EXCEPT ![c] = Err("NotFound")]
            /\ op' = op
       ELSE /\ \E p \in env.payloads :
                 op' = [op EXCEPT ![c] = [cmd |-> "upload_saved_signal",
                                          filename |-> op[c].filename, config |-> p]]
            /\ pc' = [pc EXCEPT ![c] = "lock"]
            /\ result' = result
    /\ UNCHANGED << port, port_name, mutex, frame, calls, wire, rx, env >>

\* Lock, not waiting for the holder of the mutex
Lock_NoWait(c) ==
    /\ ~ Returning
    /\ pc[c] = "lock"
    /\ IF mutex.poisoned
       THEN /\ pc' = [pc EXCEPT ![c] = "ret"]
            /\ result' = [result EXCEPT ![c] = Err("PoisonError")]
            /\ mutex' = mutex
       ELSE /\ pc' = [pc EXCEPT ![c] = "body"]
            /\ result' = result
            /\ mutex' = [mutex EXCEPT !.owner = c]
    /\ UNCHANGED << port, port_name, op, frame, calls, wire, rx, env >>

\* state.0.lock().map_err(..)?
Lock(c) ==
    /\ ~ Returning
    /\ pc[c] = "lock"
    /\ mutex.owner = "free"
    /\ IF mutex.poisoned
       THEN /\ pc' = [pc EXCEPT ![c] = "ret"]
            /\ result' = [result EXCEPT ![c] = Err("PoisonError")]
            /\ mutex' = mutex
       ELSE /\ pc' = [pc EXCEPT ![c] = "body"]
            /\ result' = result
            /\ mutex' = [mutex EXCEPT !.owner = c]
    /\ UNCHANGED << port, port_name, op, frame, calls, wire, rx, env >>

\* the command's value has gone to its caller
Return(c) ==
    /\ pc[c] = "ret"
    /\ pc' = [pc EXCEPT ![c] = "idle"]
    /\ op' = [op EXCEPT ![c] = NoOp]
    /\ frame' = [frame EXCEPT ![c] = NoFrame]
    /\ result' = [result EXCEPT ![c] = NoResult]
    /\ UNCHANGED << port, port_name, mutex, calls, wire, rx, env >>

(***************************************************************************)
(* SerialConnection: connect, disconnect, is_connected.                    *)
(***************************************************************************)
\* connect, opening the port whether or not one is held
Connect_NoCheck(c) ==
    /\ ~ Returning
    /\ pc[c] = "body"
    /\ op[c].cmd = "connect"
    /\ \/ /\ Finish(c, Err("OpenError"))
          /\ UNCHANGED << port, port_name, rx >>
       \/ /\ port' = Some(op[c].port)
          /\ port_name' = Some(op[c].port)
          /\ rx' = << >>
          /\ Finish(c, Ok("unit"))
    /\ wire' = WireAfter(c, wire)
    /\ UNCHANGED << op, frame, calls, env >>

Connect(c) ==
    /\ ~ Returning
    /\ pc[c] = "body"
    /\ op[c].cmd = "connect"
    /\ IF port.some
       THEN /\ Finish(c, Err("AlreadyConnected"))
            /\ UNCHANGED << port, port_name, rx >>
       ELSE \/ /\ Finish(c, Err("OpenError"))
               /\ UNCHANGED << port, port_name, rx >>
            \/ /\ port' = Some(op[c].port)
               /\ port_name' = Some(op[c].port)
               /\ rx' = << >>
               /\ Finish(c, Ok("unit"))
    /\ wire' = WireAfter(c, wire)
    /\ UNCHANGED << op, frame, calls, env >>

\* disconnect, dropping the port and keeping its name
Disconnect_KeepsName(c) ==
    /\ ~ Returning
    /\ pc[c] = "body"
    /\ op[c].cmd = "disconnect"
    /\ IF ~ port.some
       THEN /\ Finish(c, Err("NotConnected"))
            /\ UNCHANGED << port, port_name, rx >>
       ELSE /\ port' = None
            /\ port_name' = port_name
            /\ rx' = << >>
            /\ Finish(c, Ok("unit"))
    /\ wire' = WireAfter(c, wire)
    /\ UNCHANGED << op, frame, calls, env >>

Disconnect(c) ==
    /\ ~ Returning
    /\ pc[c] = "body"
    /\ op[c].cmd = "disconnect"
    /\ IF ~ port.some
       THEN /\ Finish(c, Err("NotConnected"))
            /\ UNCHANGED << port, port_name, rx >>
       ELSE /\ port' = None
            /\ port_name' = None
            /\ rx' = << >>
            /\ Finish(c, Ok("unit"))
    /\ wire' = WireAfter(c, wire)
    /\ UNCHANGED << op, frame, calls, env >>

IsConnected(c) ==
    /\ ~ Returning
    /\ pc[c] = "body"
    /\ op[c].cmd = "is_connected"
    /\ Finish(c, Ok(port.some))
    /\ wire' = WireAfter(c, wire)
    /\ UNCHANGED << port, port_name, op, frame, calls, rx, env >>

(***************************************************************************)
(* SerialConnection::get_status: the parsing of the device's text.         *)
(***************************************************************************)
\* the bytes or code points of s, one by one
RECURSIVE Flat(_)
Flat(s) == IF s = << >> THEN << >> ELSE [i \in 1 .. s[1][2] |-> s[1][1]] \o Flat(Tail(s))

\* str::contains
contains(s, p) ==
    LET a == Flat(s)
        b == Flat(p)
    IN  \E i \in 0 .. (Len(a) - Len(b)) : \A j \in 1 .. Len(b) : a[i + j] = b[j]

COLON == 58
RPM == Lit(<<82, 80, 77>>)
RUN == Lit(<<82, 85, 78>>)
Running == Lit(<<82, 117, 110, 110, 105, 110, 103>>)
STOP == Lit(<<83, 84, 79, 80>>)
Stopped == Lit(<<83, 116, 111, 112, 112, 101, 100>>)

\* the pieces of s between the runs of the separator c, as str::split(c) yields them
RECURSIVE SplitFrom(_, _, _)
SplitFrom(s, c, cur) ==
    IF s = << >> THEN << cur >>
    ELSE IF s[1][1] = c
         THEN << cur >> \o [i \in 1 .. (s[1][2] - 1) |-> << >>]
                \o SplitFrom(Tail(s), c, << >>)
         ELSE SplitFrom(Tail(s), c, cur \o << s[1] >>)

split(s, c) == SplitFrom(s, c, << >>)

\* the value of the decimal digits s, or U16_MAX + 1 once it is past u16
U16_MAX == 65535

RECURSIVE DigitsValue(_, _)
DigitsValue(s, acc) ==
    IF s = << >> THEN acc
    ELSE DigitsValue(Drop(s, 1), Min(acc * 10 + (s[1][1] - 48), U16_MAX + 1))

\* str::parse::<u16>: None for what is no u16
parse_u16(s) ==
    LET digits == IF s # << >> /\ s[1][1] = 43 THEN Drop(s, 1) ELSE s
    IN  IF digits = << >> \/ \E i \in 1 .. Len(digits) : digits[i][1] \notin 48 .. 57
        THEN None
        ELSE IF DigitsValue(digits, 0) > U16_MAX THEN None
        ELSE Some(DigitsValue(digits, 0))

\* ParseLine, with RUN winning over STOP on a line that has both
ParseLine_RunWins(st, raw) ==
    LET line == trim(raw)
        rpm == IF contains(line, RPM) /\ Len(split(line, COLON)) >= 2
                  /\ parse_u16(trim(split(line, COLON)[2])).some
               THEN parse_u16(trim(split(line, COLON)[2])).val
               ELSE st.rpm
        stop == IF contains(line, STOP) \/ contains(line, Stopped) THEN FALSE ELSE st.running
        running == IF contains(line, RUN) \/ contains(line, Running) THEN TRUE ELSE stop
    IN  [st EXCEPT !.rpm = rpm, !.running = running]

\* the loop body of get_status on one line, st being the status so far
ParseLine(st, raw) ==
    LET line == trim(raw)
        rpm == IF contains(line, RPM) /\ Len(split(line, COLON)) >= 2
                  /\ parse_u16(trim(split(line, COLON)[2])).some
               THEN parse_u16(trim(split(line, COLON)[2])).val
               ELSE st.rpm
        run == IF contains(line, RUN) \/ contains(line, Running) THEN TRUE ELSE st.running
        running == IF contains(line, STOP) \/ contains(line, Stopped) THEN FALSE ELSE run
    IN  [st EXCEPT !.rpm = rpm, !.running = running]

RECURSIVE ParseLines(_, _)
ParseLines(st, ls) ==
    IF ls = << >> THEN st ELSE ParseLines(ParseLine(st, Head(ls)), Tail(ls))

\* ParseStatus, keeping the trimmed text
ParseStatus_Trimmed(response) ==
    ParseLines([connected |-> TRUE, port_name |-> port_name, running |-> FALSE,
                rpm |-> 0, raw_response |-> trim(response)],
               lines(response))

\* the DeviceStatus get_status builds from the text send_command('?') returned
ParseStatus(response) ==
    ParseLines([connected |-> TRUE, port_name |-> port_name, running |-> FALSE,
                rpm |-> 0, raw_response |-> response],
               lines(response))

\* DeviceStatus { connected: false, ..Default::default() }
DefaultStatus ==
    [connected |-> FALSE, port_name |-> None, running |-> FALSE, rpm |-> 0,
     raw_response |-> << >>]

(***************************************************************************)
(* SerialConnection::send_command and get_status.                          *)
(***************************************************************************)
GetStatus(c) ==
    /\ ~ Returning
    /\ pc[c] = "body"
    /\ op[c].cmd = "get_status"
    /\ IF ~ port.some
       THEN /\ Finish(c, Ok(DefaultStatus))
            /\ wire' = WireAfter(c, wire)
       ELSE /\ pc' = [pc EXCEPT ![c] = "command"]
            /\ UNCHANGED << result, mutex, wire >>
    /\ UNCHANGED << port, port_name, op, frame, calls, rx, env >>

\* the byte send_command is called with
CommandByte(c) == IF op[c].cmd = "get_status" THEN STATUS_QUERY ELSE op[c].byte

\* SendCommandWrite, writing the byte before it looks for the port
SendCommandWrite_WriteFirst(c) ==
    /\ ~ Returning
    /\ \/ pc[c] = "body" /\ op[c].cmd = "send_command"
       \/ pc[c] = "command"
    /\ frame' = [frame EXCEPT ![c].sent = << Rep(CommandByte(c), 1) >>]
    /\ IF ~ port.some
       THEN /\ Finish(c, Err("NotConnected"))
            /\ wire' = WireAfter(c, wire)
            /\ rx' = rx
       ELSE /\ pc' = [pc EXCEPT ![c] = "cmd_read"]
            /\ wire' = Append(wire, [by |-> c, bytes |-> Rep(CommandByte(c), 1)])
            /\ rx' = rx \o CommandReply(CommandByte(c))
            /\ UNCHANGED << result, mutex >>
    /\ UNCHANGED << port, port_name, op, calls, env >>

\* send_command up to its read loop: the port check, write_all, flush
SendCommandWrite(c) ==
    /\ ~ Returning
    /\ \/ pc[c] = "body" /\ op[c].cmd = "send_command"
       \/ pc[c] = "command"
    /\ IF ~ port.some
       THEN /\ Finish(c, Err("NotConnected"))
            /\ wire' = WireAfter(c, wire)
            /\ UNCHANGED << frame, rx >>
       ELSE \/ /\ Finish(c, Err("WriteError"))
               /\ wire' = WireAfter(c, wire)
               /\ UNCHANGED << frame, rx >>
            \/ /\ pc' = [pc EXCEPT ![c] = "cmd_read"]
               /\ wire' = Append(wire, [by |-> c, bytes |-> Rep(CommandByte(c), 1)])
               /\ frame' = [frame EXCEPT ![c].sent = << Rep(CommandByte(c), 1) >>]
               /\ rx' = rx \o CommandReply(CommandByte(c))
               /\ UNCHANGED << result, mutex >>
    /\ UNCHANGED << port, port_name, op, calls, env >>

\* what send_command, or get_status around it, returns for the text read
CommandValue(c, response) ==
    IF op[c].cmd = "get_status" THEN Ok(ParseStatus(response)) ELSE Ok(response)

\* CommandTimedOut, returning the timeout as the other read errors
CommandTimedOut_Fails(c) ==
    /\ Finish(c, Err("ReadError"))
    /\ wire' = WireAfter(c, wire)
    /\ rx' = RxAfterTimeout
    /\ frame' = [frame EXCEPT ![c].last = "timeout"]

\* a read of send_command times out: `TimedOut => break`, then Ok(response)
CommandTimedOut(c) ==
    /\ Finish(c, CommandValue(c, frame[c].response))
    /\ wire' = WireAfter(c, wire)
    /\ rx' = RxAfterTimeout
    /\ frame' = [frame EXCEPT ![c].last = "timeout"]

\* one pass of the read loop of send_command
CommandRead(c) ==
    /\ ~ Returning
    /\ pc[c] = "cmd_read"
    /\ \/ /\ Finish(c, Err("ReadError"))        \* Err(e)
          /\ wire' = WireAfter(c, wire)
          /\ frame' = [frame EXCEPT ![c].last = "error"]
          /\ rx' = rx
       \/ \E n \in ReadLens(frame[c], CMD_BUF) :   \* Ok(n) if n > 0
            /\ n > 0
            /\ frame' = [frame EXCEPT
                 ![c].response = Followed(Cat(@, from_utf8_lossy(Take(rx[1].data, n)))),
                 ![c].shorts = IF n < Min(Available, CMD_BUF) THEN @ + 1 ELSE @,
                 ![c].last = "data"]
            /\ rx' = IF env.chatty THEN RxAfterReadChatty(n) ELSE RxAfterRead(n)
            /\ UNCHANGED << pc, result, mutex, wire >>
       \/ /\ rx = << >> /\ env.eof            \* Ok(0)
          /\ Finish(c, CommandValue(c, frame[c].response))
          /\ wire' = WireAfter(c, wire)
          /\ frame' = [frame EXCEPT ![c].last = "zero"]
          /\ rx' = rx
       \/ /\ Available = 0 /\ ~ (rx = << >> /\ env.eof)   \* TimedOut
          /\ CommandTimedOut(c)
    /\ UNCHANGED << port, port_name, op, calls, env >>

(***************************************************************************)
(* SerialConnection::send_config.                                          *)
(***************************************************************************)
\* the port check, the preview, clear(All), the framing
SendConfigStart(c) ==
    /\ ~ Returning
    /\ pc[c] = "body"
    /\ op[c].cmd \in Uploads
    /\ IF ~ port.some
       THEN /\ Finish(c, Err("NotConnected"))
            /\ wire' = WireAfter(c, wire)
            /\ UNCHANGED << frame, rx >>
       ELSE /\ pc' = [pc EXCEPT ![c] = "write"]
            /\ frame' = [frame EXCEPT ![c] =
                 [NoFrame EXCEPT
                    !.config_preview = take_chars(op[c].config, PREVIEW_CHARS),
                    !.to_send = as_bytes(full_message(op[c].config)),
                    !.bytes_to_send = StrLen(full_message(op[c].config))]]
            /\ rx' = Cleared(rx)
            /\ UNCHANGED << result, mutex, wire >>
    /\ UNCHANGED << port, port_name, op, calls, env >>

\* one pass of `for chunk in bytes.chunks(chunk_size)`
WriteChunk(c) ==
    /\ ~ Returning
    /\ pc[c] = "write"
    /\ LET chunk == Take(frame[c].to_send, chunk_size)
           rest == Drop(frame[c].to_send, chunk_size)
       IN  \/ /\ Finish(c, Err("WriteError"))
              /\ wire' = WireAfter(c, wire)
              /\ UNCHANGED << frame, rx >>
           \/ /\ wire' = Append(wire, [by |-> c, bytes |-> chunk])
              /\ frame' = [frame EXCEPT ![c].sent = Append(@, chunk),
                                        ![c].chunks_sent = @ + 1,
                                        ![c].to_send = rest]
              /\ IF rest = << >>
                 THEN /\ pc' = [pc EXCEPT ![c] = "poll"]
                      /\ rx' = rx \o ConfigReply
                 ELSE /\ pc' = pc
                      /\ rx' = rx
              /\ UNCHANGED << result, mutex >>
    /\ UNCHANGED << port, port_name, op, calls, env >>

\* the locals after n bytes were read and pushed onto response (not yet capped)
Pushed(f, n) ==
    [f EXCEPT !.response = Cat(@, from_utf8_lossy(Take(rx[1].data, n))),
              !.hist = Cat(@, from_utf8_lossy(Take(rx[1].data, n))),
              !.shorts = IF n < Min(Available, READ_BUF) THEN @ + 1 ELSE @,
              !.last = "data"]

\* the locals after the cap
Capped(f) ==
    [f EXCEPT !.response = Cap(@),
              !.truncated = @ \/ StrLen(f.response) > RESPONSE_CAP]

\* the locals after the scan of the polling loop
Scanned(f) ==
    [f EXCEPT !.saw_ack = @ \/ scan_for_ack_nak(f.response).ack,
              !.nak_line = IF scan_for_ack_nak(f.response).nak.some
                           THEN scan_for_ack_nak(f.response).nak ELSE @]

\* AfterPoll, draining after a NAK as well
AfterPoll_OnAnySentinel(f) == IF f.saw_ack \/ f.nak_line.some THEN "drain" ELSE "classify"

\* where send_config goes on after the polling loop
AfterPoll(f) == IF f.saw_ack THEN "drain" ELSE "classify"

\* one pass of `while start.elapsed() < max_wait`
PollRead(c) ==
    /\ ~ Returning
    /\ pc[c] = "poll"
    /\ frame[c].elapsed < max_wait
    /\ LET f == [frame[c] EXCEPT !.elapsed = @ + POLL_SLEEP_MS] IN
       \/ \E n \in ReadLens(f, READ_BUF) :
            /\ n > 0
            /\ rx' = RxAfterRead(n)
            /\ IF CapPanics(Pushed(f, n).response)
               THEN /\ Panic(c)
                    /\ frame' = [frame EXCEPT ![c] = NoFrame]   \* unwinding drops the locals
                    /\ wire' = WireAfter(c, wire)
               ELSE LET g == Scanned(Capped(Pushed(f, n))) IN
                    /\ frame' = [frame EXCEPT ![c] = g]
                    /\ pc' = [pc EXCEPT ![c] =
                                IF g.saw_ack \/ g.nak_line.some
                                THEN AfterPoll(g) ELSE "poll"]
                    /\ UNCHANGED << result, mutex, wire >>
       \/ /\ rx = << >> /\ env.eof            \* Ok(0)
          /\ frame' = [frame EXCEPT ![c] = [f EXCEPT !.last = "zero"]]
          /\ UNCHANGED << pc, result, mutex, wire, rx >>
       \/ /\ Available = 0 /\ ~ (rx = << >> /\ env.eof)   \* TimedOut
          /\ frame' = [frame EXCEPT ![c] = [f EXCEPT !.elapsed = @ + TIMEOUT_MS,
                                                      !.last = "timeout"]]
          /\ rx' = RxAfterTimeout
          /\ UNCHANGED << pc, result, mutex, wire >>
       \/ /\ Finish(c, Err("ReadError"))
          /\ wire' = WireAfter(c, wire)
          /\ frame' = [frame EXCEPT ![c] = [f EXCEPT !.last = "error"]]
          /\ rx' = rx
    /\ UNCHANGED << port, port_name, op, calls, env >>

\* the polling loop ends at its deadline
PollDeadline(c) ==
    /\ ~ Returning
    /\ pc[c] = "poll"
    /\ frame[c].elapsed >= max_wait
    /\ pc' = [pc EXCEPT ![c] = AfterPoll(frame[c])]
    /\ UNCHANGED << port, port_name, mutex, op, frame, result, calls, wire, rx, env >>

\* DrainFailed, returning the error as the polling loop does
DrainFailed_Returns(c) ==
    /\ Finish(c, Err("ReadError"))
    /\ wire' = WireAfter(c, wire)
    /\ frame' = [frame EXCEPT ![c].last = "error"]
    /\ rx' = rx

\* a read of the drain fails: `Err(_) => break`
DrainFailed(c) ==
    /\ pc' = [pc EXCEPT ![c] = "classify"]
    /\ frame' = [frame EXCEPT ![c].last = "error"]
    /\ UNCHANGED << result, mutex, wire, rx >>

\* one pass of `while drain_start.elapsed() < 250 ms`
DrainRead(c) ==
    /\ ~ Returning
    /\ pc[c] = "drain"
    /\ frame[c].drain_elapsed < DRAIN_MS
    /\ LET f == [frame[c] EXCEPT !.drain_elapsed = @ + DRAIN_SLEEP_MS] IN
       \/ \E n \in ReadLens(f, READ_BUF) :
            /\ n > 0
            /\ rx' = RxAfterRead(n)
            /\ IF CapPanics(Pushed(f, n).response)
               THEN /\ Panic(c)
                    /\ frame' = [frame EXCEPT ![c] = NoFrame]   \* unwinding drops the locals
                    /\ wire' = WireAfter(c, wire)
               ELSE /\ frame' = [frame EXCEPT ![c] = Capped(Pushed(f, n))]
                    /\ UNCHANGED << pc, result, mutex, wire >>
       \/ /\ rx = << >> /\ env.eof            \* Ok(0)
          /\ frame' = [frame EXCEPT ![c] = [f EXCEPT !.last = "zero"]]
          /\ UNCHANGED << pc, result, mutex, wire, rx >>
       \/ /\ Available = 0 /\ ~ (rx = << >> /\ env.eof)   \* TimedOut: break
          /\ pc' = [pc EXCEPT ![c] = "classify"]
          /\ frame' = [frame EXCEPT ![c].last = "timeout"]
          /\ rx' = RxAfterTimeout
          /\ UNCHANGED << result, mutex, wire >>
       \/ DrainFailed(c)
    /\ UNCHANGED << port, port_name, op, calls, env >>

\* the drain ends at its deadline
DrainDeadline(c) ==
    /\ ~ Returning
    /\ pc[c] = "drain"
    /\ frame[c].drain_elapsed >= DRAIN_MS
    /\ pc' = [pc EXCEPT ![c] = "classify"]
    /\ UNCHANGED << port, port_name, mutex, op, frame, result, calls, wire, rx, env >>

\* the outcome is built and returned
Outcome(c) ==
    /\ ~ Returning
    /\ pc[c] = "classify"
    /\ Finish(c, Ok(Classify(frame[c])))
    /\ wire' = WireAfter(c, wire)
    /\ UNCHANGED << port, port_name, op, frame, calls, rx, env >>

(***************************************************************************)
(* The devices and inputs the model is run with.                           *)
(***************************************************************************)
NL == Rep(LF, 1)
\* bytes of device output: two letters of log text, and a byte that is no UTF-8
DeviceBytes == [x |-> 120, y |-> 121, invalid |-> 255]
X == DeviceBytes.x
Y == DeviceBytes.y
INVALID_BYTE == DeviceBytes.invalid
NakText == Lit(<<78, 65, 75, 58, 98, 97, 100, 32, 99, 104, 101, 99, 107, 115, 117, 109>>)
NakShort == Lit(<<78, 65, 75, 58, 101>>)

\* configurations: 1 char; 51, 52 and 287 chars (framed: 64, 65 and 300
\* bytes); and one whose two-byte chars straddle the first chunk's end
Payloads ==
    { Rep(X, 1), Rep(X, 51), Rep(X, 52), Rep(X, 287), Cat(Rep(X, 1), Rep(233, 30)) }

\* what a device sends after a configuration reached it
Silent == << >>
Acks == << Burst(0, Cat(ACK, NL)) >>
LateAck == << Burst(1, Cat(Rep(X, 2), NL)), Burst(0, Cat(Cat(ACK, Rep(CR, 1)), NL)),
              Burst(0, Cat(Rep(Y, 2), NL)) >>
Naks == << Burst(0, Cat(NakText, NL)) >>
Junk == << Burst(0, Cat(Rep(X, 2), NL)) >>
AckNak == << Burst(0, Cat(Cat(ACK, NL), Cat(NakShort, NL))) >>
AckNakBlank == << Burst(0, Cat(Cat(Cat(ACK, NL), Cat(NakShort, NL)), Rep(SP, 5 * READ_BUF))) >>
LongLine == << Burst(0, Cat(Cat(Rep(X, 1), NAK_PREFIX), Rep(Y, RESPONSE_CAP - 4))),
               Burst(0, Cat(NL, Cat(ACK, NL))) >>
BigLog == << Burst(0, Cat(Rep(X, 20000), Cat(NL, Cat(ACK, NL)))) >>
Garbled == << Burst(0, Cat(Rep(INVALID_BYTE, 6000),
                           Cat(Lit(<<X, CR, LF>>), Cat(ACK, NL)))) >>
GarbledOdd == << Burst(0, Rep(INVALID_BYTE, 5462)), Burst(0, Cat(ACK, NL)) >>

\* a log line that begins with the letters ACK: ACKNOWLEDGED
AckLonger == << Burst(0, Cat(Cat(ACK, Lit(<<78, 79, 87, 76, 69, 68, 71, 69, 68>>)), NL)) >>

\* the ACK, and then, while the drain reads: a NAK line; 20000 bytes of log
AckThenNak == << Burst(0, Cat(ACK, NL)), Burst(0, Cat(NakShort, NL)) >>
AckThenLog == << Burst(0, Cat(ACK, NL)), Burst(0, Rep(X, 20000)) >>

UploadReplies ==
    { Silent, Acks, LateAck, Naks, Junk, AckNak, AckNakBlank, LongLine, BigLog,
      Garbled, GarbledOdd, AckLonger, AckThenNak, AckThenLog }

StatusText == << Burst(0, Cat(Lit(<<82, 80, 77, 58, 52, 50, 48, 48, 32, 83, 84, 65, 84, 69, 58, 82, 85, 78>>), NL)) >>
OkText == << Burst(0, Cat(Lit(<<79, 75>>), NL)) >>

Kinds == {"connect", "disconnect", "send_command", "get_status", "upload_config",
          "upload_saved_signal", "is_connected"}

\* a run: its callers, the commands they invoke and with what inputs, and its
\* device: what it sends after a configuration, a status query and a simple
\* command, and whether a read of it that finds nothing returns Ok(0) (eof)
\* or times out, and whether it keeps sending for as long as it is read
\* (chatty)
Scenario(callers, menu, bytes, payloads, upload, eof) ==
    [callers |-> callers, menu |-> menu, bytes |-> bytes, payloads |-> payloads,
     upload |-> upload, status |-> StatusText, reply |-> OkText, eof |-> eof,
     chatty |-> FALSE]

\* one caller: every command with every input on one device, and the uploads
\* on every device
UploadScenarios ==
    { Scenario({"c1"}, Kinds, CommandBytes, Payloads, Acks, FALSE) }
      \cup { Scenario({"c1"}, {"connect", "upload_config"}, {}, {Rep(X, 1)}, r, FALSE) :
               r \in UploadReplies }
      \cup { Scenario({"c1"}, {"connect", "upload_config"}, {}, {Rep(X, 1)}, r, TRUE) :
               r \in {Silent, Junk, Acks} }

\* a device that answers a command byte with log text that never ends
Chatter == << Burst(0, Rep(X, 1)), Burst(0, Rep(Y, 1)) >>

\* one caller: the simple commands and the status query on the device that
\* never stops, and the commands and uploads of UploadScenarios
CommandScenarios ==
    { [Scenario({"c1"}, {"connect", "send_command", "get_status"}, CommandBytes,
                {Rep(X, 1)}, Silent, FALSE)
         EXCEPT !.status = Chatter, !.reply = Chatter, !.chatty = TRUE] }
      \cup UploadScenarios

\* lines of status text a device sends
StatusLines ==
    { Lit(<<83, 84, 65, 84, 69, 58, 82, 85, 78>>),   \* STATE:RUN
      Lit(<<83, 84, 65, 84, 69, 58, 83, 84, 79, 80>>),   \* STATE:STOP
      Lit(<<82, 117, 110, 110, 105, 110, 103>>),   \* Running
      Lit(<<83, 116, 111, 112, 112, 101, 100>>),   \* Stopped
      Lit(<<82, 85, 78, 32, 83, 84, 79, 80>>),   \* RUN STOP
      Lit(<<82, 80, 77, 58, 97, 98, 99>>),   \* RPM:abc
      Lit(<<82, 80, 77, 58, 52, 50, 48, 48, 32, 83, 84, 65, 84, 69, 58, 82, 85, 78>>),   \* RPM:4200 STATE:RUN
      Lit(<<82, 80, 77, 58, 32, 54, 53, 53, 51, 53>>),   \* RPM: 65535
      Lit(<<120>>) }   \* x

\* the most lines in a status text
MaxStatusLines == 2

\* the status texts of up to MaxStatusLines lines, each line ended by \n
RECURSIVE TextsOf(_)
TextsOf(n) ==
    IF n = 0 THEN { << >> }
    ELSE TextsOf(n - 1)
           \cup { Cat(t, Cat(l, NL)) : t \in TextsOf(n - 1), l \in StatusLines }

StatusTexts == TextsOf(MaxStatusLines)

\* one caller that connects and asks for the status, on a device for each text
StatusScenarios ==
    { [Scenario({"c1"}, {"connect", "get_status"}, {}, {Rep(X, 1)}, Silent, FALSE)
         EXCEPT !.status = IF t = << >> THEN << >> ELSE << Burst(0, t) >>] :
        t \in StatusTexts }
      \cup UploadScenarios

\* two callers: connect and two more kinds of command
Menus ==
    { {"connect", "disconnect", "upload_config"},
      {"connect", "get_status", "upload_saved_signal"} }

Scenarios ==
    { Scenario(Callers, m, {}, {Rep(X, 1)}, r, FALSE) : m \in Menus, r \in {Acks, GarbledOdd} }
      \cup { Scenario(Callers, {"connect", "is_connected", "send_command"}, {114},
                      {Rep(X, 1)}, Acks, FALSE),
             Scenario(Callers, {"connect", "upload_config"}, {}, {Rep(X, 1)}, Silent, FALSE),
             Scenario(Callers, {"connect", "upload_config"}, {}, {Rep(X, 1)}, Acks, TRUE) }

(***************************************************************************)
(* The specifications.                                                     *)
(***************************************************************************)
InitWith(scenarios, budget) ==
    /\ port = None
    /\ port_name = None
    /\ mutex = [owner |-> "free", poisoned |-> FALSE]
    /\ pc = [c \in Callers |-> "idle"]
    /\ op = [c \in Callers |-> NoOp]
    /\ frame = [c \in Callers |-> NoFrame]
    /\ result = [c \in Callers |-> NoResult]
    /\ calls = budget
    /\ wire = << >>
    /\ rx = << >>
    /\ env \in scenarios

Init == InitWith(Scenarios, MaxCalls)

UploadInit == InitWith(UploadScenarios, MaxUploadCalls)

\* a call for each command of the status scenarios: connect, then get_status
StatusCalls == Cardinality({"connect", "get_status"})

StatusInit == InitWith(StatusScenarios, StatusCalls)

CommandInit == InitWith(CommandScenarios, MaxUploadCalls)

Next ==
    \E c \in Callers :
        \/ Invoke(c)
        \/ LoadSignal(c)
        \/ Lock(c)
        \/ Return(c)
        \/ Connect(c)
        \/ Disconnect(c)
        \/ IsConnected(c)
        \/ GetStatus(c)
        \/ SendCommandWrite(c)
        \/ CommandRead(c)
        \/ SendConfigStart(c)
        \/ WriteChunk(c)
        \/ PollRead(c)
        \/ PollDeadline(c)
        \/ DrainRead(c)
        \/ DrainDeadline(c)
        \/ Outcome(c)

Spec == Init /\ [][Next]_vars

UploadSpec == UploadInit /\ [][Next]_vars

StatusSpec == StatusInit /\ [][Next]_vars

\* the thread that is in the read loop of send_command keeps running
CommandSpec ==
    CommandInit /\ [][Next]_vars /\ \A c \in Callers : WF_vars(CommandRead(c))

(***************************************************************************)
(* Properties of connect, send_command and send_config.                    *)
(***************************************************************************)
\* caller c's command is an upload, and send_config has returned its value
SendConfigReturned(c) ==
    /\ pc[c] = "ret"
    /\ op[c].cmd \in Uploads
    /\ result[c].kind \in {"Ok", "Err"}
    /\ result[c] \notin {Err("NotFound"), Err("PoisonError")}

\* caller c's upload has returned an UploadResult
OutcomeReturned(c) ==
    /\ pc[c] = "ret"
    /\ op[c].cmd \in Uploads
    /\ result[c].kind = "Ok"

RECURSIVE ConcatAll(_)
ConcatAll(q) == IF q = << >> THEN << >> ELSE Cat(Head(q), ConcatAll(Tail(q)))

\* all the text the device of this run sends after a configuration
DeviceText == from_utf8_lossy(ConcatAll([i \in DOMAIN env.upload |-> env.upload[i].data]))

\* C1: connect while a connection is held returns AlreadyConnected and leaves
\* the held port and its name as they were.
C1_ConnectWhileConnected ==
    [][\A c \in Callers :
         (pc[c] = "body" /\ op[c].cmd = "connect" /\ port.some /\ pc'[c] # "body")
           => /\ result'[c] = Err("AlreadyConnected")
              /\ port' = port
              /\ port_name' = port_name]_vars

C1_Witness ==
    \E c \in Callers :
      /\ pc[c] = "ret"
      /\ op[c].cmd = "connect"
      /\ result[c] = Err("AlreadyConnected")
      /\ port.some
      /\ port.val # op[c].port

\* C2: send_command with no connection held returns NotConnected, for every
\* command byte, having written nothing and changed nothing.
C2_SendCommandNotConnected ==
    [][\A c \in Callers :
         (pc[c] = "body" /\ op[c].cmd = "send_command" /\ ~ port.some /\ pc'[c] # "body")
           => /\ result'[c] = Err("NotConnected")
              /\ frame'[c].sent = << >>
              /\ wire' = wire
              /\ port' = port
              /\ port_name' = port_name
              /\ rx' = rx]_vars

C2_Witness ==
    \E c \in Callers :
      /\ pc[c] = "ret"
      /\ op[c].cmd = "send_command"
      /\ op[c].byte = 119
      /\ result[c] = Err("NotConnected")
      /\ frame[c].sent = << >>

\* C3 as the specification states it: send_config returns NotConnected when
\* no connection is held, and with a connection held it returns an
\* UploadResult, never an error.
C3_NeverAnError ==
    \A c \in Callers :
      SendConfigReturned(c)
        => IF port.some THEN result[c].kind = "Ok" ELSE result[c] = Err("NotConnected")

\* C3, amended: send_config returns NotConnected when no connection is held.
\* With a connection held, a value it returns is an UploadResult, or WriteError
\* when a chunk could not be written, or ReadError when a read of the polling
\* loop failed other than by timing out; a read that fails in the drain after
\* the ACK or NAK does not make it an error.
C3_ErrorsOfSendConfig ==
    \A c \in Callers :
      SendConfigReturned(c)
        => IF ~ port.some
           THEN result[c] = Err("NotConnected")
           ELSE \/ result[c].kind = "Ok"
                \/ /\ result[c] = Err("WriteError")
                   /\ frame[c].to_send # << >>
                \/ /\ result[c] = Err("ReadError")
                   /\ frame[c].to_send = << >>
                   /\ frame[c].chunks_sent > 0
                   /\ ~ frame[c].saw_ack
                   /\ ~ frame[c].nak_line.some
                   /\ frame[c].drain_elapsed = 0

C3_Witness ==
    \E c \in Callers :
      /\ SendConfigReturned(c)
      /\ port.some
      /\ result[c] = Err("ReadError")
      /\ frame[c].hist # << >>

\* C4: the methods of the connection run one at a time: a caller inside a
\* method holds the mutex, no other caller is inside one, the bytes written
\* since the port was last at rest are one caller's, and the port stays open
\* under a caller that is writing to it or reading from it.
C4_OneAtATime ==
    /\ Cardinality({c \in Callers : pc[c] \in InMethod}) <= 1
    /\ \A c \in Callers : pc[c] \in InMethod => mutex.owner = c
    /\ \A i, j \in DOMAIN wire : wire[i].by = wire[j].by
    /\ \A c \in Callers : pc[c] \in {"cmd_read", "write", "poll", "drain"} => port.some

C4_Witness ==
    \E c, d \in Callers :
      /\ c # d
      /\ pc[c] = "poll"
      /\ frame[c].chunks_sent = 1
      /\ wire # << >>
      /\ pc[d] = "lock"
      /\ op[d].cmd = "disconnect"

\* C5: once the writes are done, the chunks written are, end to end,
\* <CFG>\n + the configuration + \n<END>\n; every chunk but the last is of 64
\* bytes and the last of 1 to 64; bytes_sent is the configuration's length in
\* bytes plus 13 and chunks_sent is that over 64, rounded up.
C5_Framing ==
    \A c \in Callers :
      (pc[c] \in {"poll", "drain", "classify", "ret"} /\ op[c].cmd \in Uploads
         /\ frame[c].chunks_sent > 0 /\ frame[c].to_send = << >>)
        => LET sent == frame[c].sent
               L == Count(as_bytes(op[c].config)) + 13
           IN  /\ ConcatAll(sent)
                    = Cat(Cat(Lit(<<60, 67, 70, 71, 62, 10>>), as_bytes(op[c].config)),
                          Lit(<<10, 60, 69, 78, 68, 62, 10>>))
               /\ \A i \in 1 .. Len(sent) - 1 : Count(sent[i]) = 64
               /\ Count(sent[Len(sent)]) \in 1 .. 64
               /\ Len(sent) = (L + 63) \div 64
               /\ frame[c].bytes_to_send = L
               /\ frame[c].chunks_sent = (L + 63) \div 64
               /\ OutcomeReturned(c)
                    => /\ result[c].val.bytes_sent = L
                       /\ result[c].val.chunks_sent = (L + 63) \div 64

C5_Witness ==
    \E c \in Callers :
      /\ OutcomeReturned(c)
      /\ op[c].config = Cat(Rep(X, 1), Rep(233, 30))
      /\ result[c].val.bytes_sent = 74
      /\ result[c].val.chunks_sent = 2
      /\ Count(frame[c].sent[1]) = 64

\* C6: when the device sends a line that is ACK and no line that begins with
\* NAK:, the UploadResult returned has success true and no error_message,
\* however the reads divide the device's bytes.
C6_AckMeansSuccess ==
    \A c \in Callers :
      (OutcomeReturned(c) /\ ScanAck(DeviceText) /\ ~ ScanNak(DeviceText).some)
        => /\ result[c].val.success
           /\ result[c].val.error_message = None

\* C7: when the device replies with a line that begins with NAK: (and no ACK),
\* the UploadResult returned has success false and that whole line as its
\* error_message, however the reads divide the device's bytes.
C7_NakLineReported ==
    \A c \in Callers :
      (OutcomeReturned(c) /\ ScanNak(DeviceText).some /\ ~ ScanAck(DeviceText))
        => /\ ~ result[c].val.success
           /\ result[c].val.error_message = Some(Msg("", ScanNak(DeviceText).val))

\* C8: the polling loop is left only with an ACK or NAK seen or with 15
\* seconds gone; an upload during which no byte arrived returns, not before
\* 15 seconds, success false, the no-response message and an empty
\* raw_response.
C8_SilentDevice ==
    \A c \in Callers :
      /\ (pc[c] \in {"drain", "classify"} \/ OutcomeReturned(c))
           => \/ frame[c].saw_ack
              \/ frame[c].nak_line.some
              \/ frame[c].elapsed >= 15000
      /\ (OutcomeReturned(c) /\ frame[c].hist = << >>)
           => /\ ~ result[c].val.success
              /\ result[c].val.error_message = Some(Msg(NO_RESPONSE, << >>))
              /\ result[c].val.raw_response = << >>
              /\ frame[c].elapsed >= 15000

C8_Witness ==
    \E c \in Callers :
      /\ OutcomeReturned(c)
      /\ frame[c].hist = << >>
      /\ frame[c].elapsed >= 15000
      /\ ~ result[c].val.success

\* C9: the UploadResult is the first that applies of: a response empty once
\* trimmed gives the no-response failure; a NAK line gives a failure with
\* that line; no ACK gives the no-ACK failure with the first 300 characters
\* of the response; otherwise success with no error_message.
C9_Priority ==
    \A c \in Callers :
      OutcomeReturned(c)
        => LET r == result[c].val
               f == frame[c]
               blank == \A i \in 1 .. Len(r.raw_response) :
                          r.raw_response[i][1] \in WhiteSpace
           IN  /\ r.raw_response = f.response
               /\ blank => /\ ~ r.success
                           /\ r.error_message = Some(Msg(NO_RESPONSE, << >>))
               /\ (~ blank /\ f.nak_line.some)
                    => /\ ~ r.success
                       /\ r.error_message = Some(Msg("", f.nak_line.val))
               /\ (~ blank /\ ~ f.nak_line.some /\ ~ f.saw_ack)
                    => /\ ~ r.success
                       /\ r.error_message = Some(Msg(NO_ACK, Take(r.raw_response, 300)))
               /\ (~ blank /\ ~ f.nak_line.some /\ f.saw_ack)
                    => /\ r.success
                       /\ r.error_message = None

C9_Witness ==
    \E c \in Callers :
      /\ OutcomeReturned(c)
      /\ frame[c].saw_ack
      /\ frame[c].nak_line.some
      /\ result[c].val.raw_response # << >>
      /\ result[c].val.error_message = Some(Msg(NO_RESPONSE, << >>))

\* C10: the response in store is never longer than 16384 bytes after the cap;
\* once a cap has cut it, it is the last 16384 bytes of all that was received,
\* and until then it is all that was received.
C10_ResponseCap ==
    \A c \in Callers :
      op[c].cmd \in Uploads
        => LET f == frame[c] IN
           /\ StrLen(f.response) <= 16384
           /\ ~ f.truncated => f.response = f.hist
           /\ f.truncated
                => /\ StrLen(f.response) = 16384
                   /\ Count(f.response) <= Count(f.hist)
                   /\ f.response = Drop(f.hist, Count(f.hist) - Count(f.response))
           /\ OutcomeReturned(c) => StrLen(result[c].val.raw_response) <= 16384

C10_Witness ==
    \E c \in Callers :
      /\ OutcomeReturned(c)
      /\ frame[c].truncated
      /\ StrLen(result[c].val.raw_response) = 16384
      /\ StrLen(frame[c].hist) > 16384
      /\ result[c].val.success

\* C11: a connect issued while a connection is held does not wait behind an
\* operation in progress: when it comes to the lock, the lock is free for it.
C11_ConnectNeverWaits ==
    \A c \in Callers :
      (pc[c] = "lock" /\ op[c].cmd = "connect" /\ port.some) => mutex.owner = "free"

\* C12: send_config runs on a background worker, whichever command called it,
\* and the dispatch thread never waits for the lock while an upload holds it.
C12_UploadsOffDispatch ==
    \A c \in Callers :
      /\ (pc[c] \in InSendConfig /\ op[c].cmd \in Uploads) => RunsOn(op[c].cmd) = "worker"
      /\ (pc[c] = "lock" /\ RunsOn(op[c].cmd) = "dispatch")
           => ~ \E d \in Callers \ {c} : pc[d] \in InSendConfig

(***************************************************************************)
(* Properties of get_status.                                               *)
(***************************************************************************)
\* caller c's get_status has returned a DeviceStatus
StatusReturned(c) ==
    /\ pc[c] = "ret"
    /\ op[c].cmd = "get_status"
    /\ result[c].kind = "Ok"

\* line l of a status text has a RUN or Running token, a STOP or Stopped token
HasRun(l) == contains(l, Lit(<<82, 85, 78>>)) \/ contains(l, Lit(<<82, 117, 110, 110, 105, 110, 103>>))
HasStop(l) == contains(l, Lit(<<83, 84, 79, 80>>)) \/ contains(l, Lit(<<83, 116, 111, 112, 112, 101, 100>>))

\* C13: the running flag is that of the last line with a RUN/Running or
\* STOP/Stopped token, false if that line has a STOP/Stopped token and true
\* otherwise; it is false when no line has a token.
C13_LastLineWins ==
    \A c \in Callers :
      (StatusReturned(c) /\ result[c].val.connected)
        => LET ls == lines(result[c].val.raw_response)
               hits == {i \in 1 .. Len(ls) : HasRun(ls[i]) \/ HasStop(ls[i])}
               last == CHOOSE i \in hits : \A j \in hits : j <= i
           IN  result[c].val.running = (hits # {} /\ ~ HasStop(ls[last]))

C13_Witness ==
    \E c \in Callers :
      /\ StatusReturned(c)
      /\ result[c].val.raw_response
           = Lit(<<83, 84, 65, 84, 69, 58, 83, 84, 79, 80, 10,
                   83, 84, 65, 84, 69, 58, 82, 85, 78, 10>>)
      /\ result[c].val.running

\* the number of the decimal digits of a from place i on
RECURSIVE NumberAt(_, _, _)
NumberAt(a, i, acc) ==
    IF i > Len(a) \/ a[i] \notin 48 .. 57 THEN acc
    ELSE NumberAt(a, i + 1, Min(acc * 10 + (a[i] - 48), 65536))

\* what line l says of the RPM: "number" with the number of its first RPM:
\* token, "none" when its RPM has no colon or no digit or space after the
\* colon, "absent" without RPM, "other" otherwise
RpmField(l) ==
    LET a == Flat(l)
        at == {i \in 1 .. Len(a) - 3 :
                 a[i] = 82 /\ a[i + 1] = 80 /\ a[i + 2] = 77 /\ a[i + 3] = 58}
        i == CHOOSE k \in at : \A j \in at : k <= j
    IN  IF ~ contains(l, Lit(<<82, 80, 77>>)) THEN [kind |-> "absent"]
        ELSE IF at = {} THEN [kind |-> "none"]
        ELSE IF i + 4 > Len(a) THEN [kind |-> "none"]
        ELSE IF a[i + 4] \in 48 .. 57
        THEN IF NumberAt(a, i + 4, 0) <= 65535
             THEN [kind |-> "number", val |-> NumberAt(a, i + 4, 0)]
             ELSE [kind |-> "other"]
        ELSE IF a[i + 4] = 32 THEN [kind |-> "other"]
        ELSE [kind |-> "none"]

\* C14: when every line's RPM field is a number in 0..65535 or is non-numeric
\* or missing, rpm is the number of the last line that has one, whatever else
\* is on that line, and 0 when no line has one.
C14_RpmToken ==
    \A c \in Callers :
      (StatusReturned(c) /\ result[c].val.connected)
        => LET ls == lines(result[c].val.raw_response)
               hits == {i \in 1 .. Len(ls) : RpmField(ls[i]).kind = "number"}
               last == CHOOSE i \in hits : \A j \in hits : j <= i
           IN  (\A i \in 1 .. Len(ls) : RpmField(ls[i]).kind # "other")
                 => result[c].val.rpm = IF hits = {} THEN 0 ELSE RpmField(ls[last]).val

\* C15: get_status with no connection held returns, having written nothing,
\* connected false and every other field at its default; with a connection
\* held, a status it returns has connected true, the name of the held port
\* and, as raw_response, the text read from the device as it was read, the
\* device's answer to the query at its end.
C15_StatusFields ==
    \A c \in Callers :
      StatusReturned(c)
        => IF ~ port.some
           THEN /\ result[c].val = [connected |-> FALSE, port_name |-> None,
                                    running |-> FALSE, rpm |-> 0, raw_response |-> << >>]
                /\ frame[c].sent = << >>
           ELSE /\ result[c].val.connected
                /\ result[c].val.port_name = Some(port.val)
                /\ result[c].val.raw_response = frame[c].response
                /\ LET sent == ConcatAll([i \in DOMAIN env.status |-> env.status[i].data])
                       raw == result[c].val.raw_response
                   IN  /\ Count(raw) >= Count(sent)
                       /\ Drop(raw, Count(raw) - Count(sent)) = sent

C15_Witness ==
    \E c \in Callers :
      /\ StatusReturned(c)
      /\ result[c].val.connected
      /\ result[c].val.port_name = Some("COM4")
      /\ result[c].val.raw_response
           = Lit(<<120, 10, 82, 80, 77, 58, 32, 54, 53, 53, 51, 53, 10>>)
      /\ result[c].val.rpm = 65535

(***************************************************************************)
(* Properties of disconnect, of read timeouts, of the sentinels, of the    *)
(* polling loop and of the drain.                                          *)
(***************************************************************************)
\* C16: the port and its name are there together or not at all; disconnect
\* with no connection returns NotConnected and changes nothing, and with one
\* clears both; with no connection is_connected is false, send_command and
\* send_config return NotConnected, and connect is not refused as
\* AlreadyConnected.
C16_Disconnect ==
    /\ [](/\ port.some = port_name.some
          /\ port.some => port.val = port_name.val
          /\ \A c \in Callers :
               (pc[c] = "ret" /\ ~ port.some)
                 => /\ op[c].cmd = "is_connected" /\ result[c].kind = "Ok"
                         => result[c].val = FALSE
                    /\ SendConfigReturned(c) => result[c] = Err("NotConnected")
                    /\ op[c].cmd = "send_command" /\ result[c].kind \in {"Ok", "Err"}
                         => result[c] \in {Err("NotConnected"), Err("PoisonError")}
                    /\ op[c].cmd = "connect" => result[c] # Err("AlreadyConnected"))
    /\ [][\A c \in Callers :
            (pc[c] = "body" /\ op[c].cmd = "disconnect" /\ pc'[c] # "body")
              => IF port.some
                 THEN /\ result'[c] = Ok("unit")
                      /\ ~ port'.some
                      /\ ~ port_name'.some
                 ELSE /\ result'[c] = Err("NotConnected")
                      /\ port' = port
                      /\ port_name' = port_name]_vars

C16_Witness ==
    \E c \in Callers :
      /\ pc[c] = "ret"
      /\ op[c].cmd = "disconnect"
      /\ result[c] = Ok("unit")
      /\ ~ port.some
      /\ ~ port_name.some
      /\ calls = 0

\* a step in which a read of caller c timed out
ReadTimedOut(c) == frame'[c] # frame[c] /\ frame'[c].last = "timeout"

\* C17: a read that times out is no error: in send_command it ends the reads
\* and the text read so far is returned; in the polling loop it is passed
\* over and the polling goes on; ReadError is returned only for a read that
\* failed otherwise.
C17_TimeoutIsNoError ==
    /\ [](\A c \in Callers :
            (pc[c] = "ret" /\ result[c] = Err("ReadError")) => frame[c].last = "error")
    /\ [][\A c \in Callers :
            /\ (pc[c] = "cmd_read" /\ ReadTimedOut(c))
                 => /\ pc'[c] = "ret"
                    /\ result'[c].kind = "Ok"
                    /\ op[c].cmd = "send_command" => result'[c].val = frame[c].response
                    /\ op[c].cmd = "get_status"
                         => result'[c].val.raw_response = frame[c].response
            /\ (pc[c] = "poll" /\ ReadTimedOut(c))
                 => /\ pc'[c] = "poll"
                    /\ result'[c] = result[c]
                    /\ frame'[c].response = frame[c].response
                    /\ frame'[c].saw_ack = frame[c].saw_ack
                    /\ frame'[c].nak_line = frame[c].nak_line]_vars

C17_Witness ==
    \E c \in Callers :
      /\ OutcomeReturned(c)
      /\ result[c].val.success
      /\ frame[c].elapsed >= 1100
      /\ frame[c].elapsed < 15000

\* C18: the ACK flag is set, and success returned, only when the device's
\* output has a line that is ACK, and a NAK line is taken only when it has a
\* line that begins with NAK:.
C18_SentinelsAreLines ==
    \A c \in Callers :
      op[c].cmd \in Uploads
        => /\ frame[c].saw_ack => ScanAck(DeviceText)
           /\ frame[c].nak_line.some => ScanNak(DeviceText).some
           /\ (OutcomeReturned(c) /\ result[c].val.success) => ScanAck(DeviceText)

\* C19: no polling read follows a read that left an ACK or NAK in the
\* response; every pass of the polling loop takes its 100 ms of the 15 s, so
\* that the loop ends; and an upload ends by returning.
C19_UploadReturns ==
    /\ [](\A c \in Callers :
            /\ pc[c] = "poll" => ~ frame[c].saw_ack /\ ~ frame[c].nak_line.some
            /\ (pc[c] = "ret" /\ op[c].cmd \in Uploads) => result[c].kind \in {"Ok", "Err"})
    /\ [][\A c \in Callers :
            (pc[c] = "poll" /\ pc'[c] = "poll" /\ frame'[c] # frame[c])
              => frame'[c].elapsed >= frame[c].elapsed + 100]_vars

\* C20: the drain runs when and only when the ACK was seen; it stops at the
\* first read that times out or fails, or when its 250 ms are over; no step
\* of it returns an error or changes the ACK and NAK found by the polling.
C20_Drain ==
    /\ [](\A c \in Callers :
            pc[c] = "drain" => frame[c].saw_ack /\ frame[c].drain_elapsed < 250 + 20)
    /\ [][\A c \in Callers :
            /\ (pc[c] = "poll" /\ pc'[c] \in {"drain", "classify"})
                 => (pc'[c] = "drain") = frame'[c].saw_ack
            /\ pc[c] = "drain"
                 => /\ result'[c].kind # "Err"
                    /\ pc'[c] \in {"drain", "classify"}
                         => /\ frame'[c].saw_ack = frame[c].saw_ack
                            /\ frame'[c].nak_line = frame[c].nak_line
                    /\ (frame'[c] # frame[c] /\ frame'[c].last \in {"timeout", "error"})
                         => pc'[c] = "classify"
                    /\ frame[c].drain_elapsed >= 250 => pc'[c] # "drain"]_vars

C20_Witness ==
    \E c \in Callers :
      /\ OutcomeReturned(c)
      /\ result[c].val.success
      /\ frame[c].last = "error"
      /\ frame[c].drain_elapsed > 0

\* C21: an outcome with success = true has a raw_response that contains a
\* line equal to ACK and no line that begins with NAK:.
C21_SuccessMatchesResponse ==
    \A c \in Callers :
      (OutcomeReturned(c) /\ result[c].val.success)
        => /\ ScanAck(result[c].val.raw_response)
           /\ ~ ScanNak(result[c].val.raw_response).some

\* C23: capping the response never aborts the upload: no call ends in a
\* panic, the lock is never left poisoned, and every response the cap has
\* cut is whole characters, at most 16384 bytes of them.
C23_CapNeverAborts ==
    /\ \A c \in Callers : result[c].kind # "Panic"
    /\ ~ mutex.poisoned
    /\ \A c \in Callers :
         pc[c] \in InSendConfig => StrLen(frame[c].response) <= RESPONSE_CAP

\* C22: every send_command call on a held connection returns, and with that
\* gives the lock back, whatever the device sends.
C22_SendCommandReturns ==
    \A c \in Callers :
      (pc[c] = "cmd_read") ~> (pc[c] = "ret" /\ mutex.owner # c)

=============================================================================
